---------------------------- MODULE Spec2Model ----------------------------
(***************************************************************************)
(* A model of the personaltrainer backend: the send-email relay            *)
(* (api/send-email.js), the save-post handler and the save-testimonial     *)
(* handler (api/save-testimonial.js), the GitHub contents store they       *)
(* write to, and the pure string functions they use.                       *)
(*                                                                         *)
(* A JavaScript string is a sequence of characters; a character is a       *)
(* one-character TLA+ string, except "CTL", which stands for one control   *)
(* character of [\x00-\x08\x0B\x0C\x0E-\x1F\x7F] (U+0001).                  *)
(***************************************************************************)
EXTENDS Integers, Sequences, FiniteSets, TLC

VARIABLES
    req,        \* req[r]: the state of request r (its input, position, response)
    store,      \* store[p]: the file at path p of the repository, or NoFile
    faults,     \* number of injected outbound failures so far
    sIn,        \* sanitize lab: the input string
    sOnce,      \* sanitize lab: sanitizeInput(sIn)
    sTwice,     \* sanitize lab: sanitizeInput(sanitizeInput(sIn))
    sPc,        \* sanitize lab: "in" | "once" | "twice"
    slugIn,     \* slug lab: the submitted slug
    slugOut,    \* slug lab: the derived safeSlug
    slugPc      \* slug lab: "in" | "out"

vars == <<req, store, faults, sIn, sOnce, sTwice, sPc, slugIn, slugOut, slugPc>>

(***************************************************************************)
(* Characters and character classes.                                      *)
(***************************************************************************)
UpperChars == <<"A","B","C","D","E","F","G","H","I","J","K","L","M",
                "N","O","P","Q","R","S","T","U","V","W","X","Y","Z">>
LowerChars == <<"a","b","c","d","e","f","g","h","i","j","k","l","m",
                "n","o","p","q","r","s","t","u","v","w","x","y","z">>
Digits == {"0","1","2","3","4","5","6","7","8","9"}
Range(s) == {s[i] : i \in 1..Len(s)}
IsUpper(c) == c \in Range(UpperChars)
IsLower(c) == c \in Range(LowerChars)
IsDigit(c) == c \in Digits
\* \w of a JavaScript regular expression
IsWord(c) == IsUpper(c) \/ IsLower(c) \/ IsDigit(c) \/ c = "_"
\* \s of a JavaScript regular expression (the characters the inputs use)
IsSpace(c) == c \in {" ", "\n", "\t", "\r"}
\* [\x00-\x08\x0B-\x0C\x0E-\x1F\x7F]
IsControl(c) == c = "CTL"

\* String.prototype.toLowerCase, one character
LowerChar(c) ==
    IF IsUpper(c)
    THEN LowerChars[CHOOSE i \in 1..26 : UpperChars[i] = c]
    ELSE c
toLowerCase(s) == [i \in 1..Len(s) |-> LowerChar(s[i])]

\* s.slice(i - 1): the suffix of s from position i (1-based)
SliceFrom(s, i) == IF i > Len(s) THEN <<>> ELSE SubSeq(s, i, Len(s))

\* pat (lower case) occurs in s at position i, ignoring case (the i flag)
MatchAtCI(s, i, pat) ==
    /\ i + Len(pat) - 1 <= Len(s)
    /\ \A k \in 1..Len(pat) : LowerChar(s[i + k - 1]) = pat[k]

\* /pat/gi.test(s)
ContainsCI(s, pat) == \E i \in 1..Len(s) : MatchAtCI(s, i, pat)

(***************************************************************************)
(* sanitizeInput, step by step.                                            *)
(***************************************************************************)
\* input.replace(/<[^>]*>/g, ''): at a "<" that has a ">" after it the match
\* runs to the first such ">"; a "<" with no ">" after it stays.
RECURSIVE StripTagsFrom(_, _)
StripTagsFrom(s, i) ==
    IF i > Len(s) THEN <<>>
    ELSE IF s[i] = "<" /\ \E j \in (i + 1)..Len(s) : s[j] = ">"
         THEN LET j == CHOOSE j \in (i + 1)..Len(s) :
                          /\ s[j] = ">"
                          /\ \A k \in (i + 1)..(j - 1) : s[k] # ">"
              IN  StripTagsFrom(s, j + 1)
         ELSE <<s[i]>> \o StripTagsFrom(s, i + 1)
StripTags(s) == StripTagsFrom(s, 1)

\* sanitized.replace(/javascript:/gi, ''): leftmost matches, not rescanned
JavascriptPat == <<"j","a","v","a","s","c","r","i","p","t",":">>
RECURSIVE StripPatFrom(_, _, _)
StripPatFrom(s, i, pat) ==
    IF i > Len(s) THEN <<>>
    ELSE IF MatchAtCI(s, i, pat)
         THEN StripPatFrom(s, i + Len(pat), pat)
         ELSE <<s[i]>> \o StripPatFrom(s, i + 1, pat)
StripJavascript(s) == StripPatFrom(s, 1, JavascriptPat)

\* The end of the maximal run of \w (of \s) characters starting at i
\* (i - 1 when s[i] is not one).
WordRunEnd(s, i) ==
    CHOOSE e \in (i - 1)..Len(s) :
        /\ \A k \in i..e : IsWord(s[k])
        /\ (e < Len(s) => ~IsWord(s[e + 1]))
SpaceRunEnd(s, i) ==
    CHOOSE e \in (i - 1)..Len(s) :
        /\ \A k \in i..e : IsSpace(s[k])
        /\ (e < Len(s) => ~IsSpace(s[e + 1]))

\* /on\w+\s*=/i matches at i: "on", the maximal \w run (one character at
\* least), the maximal \s run, then "=". Giving characters of the \w run back
\* cannot help, for neither \s nor "=" is a \w. The result is the position of
\* the "=", or 0 when there is no match at i.
OnHandlerEnd(s, i) ==
    IF /\ i + 1 <= Len(s)
       /\ LowerChar(s[i]) = "o"
       /\ LowerChar(s[i + 1]) = "n"
    THEN LET w == WordRunEnd(s, i + 2)
             e == SpaceRunEnd(s, w + 1) + 1
         IN  IF w >= i + 2 /\ e <= Len(s) /\ s[e] = "=" THEN e ELSE 0
    ELSE 0

\* sanitized.replace(/on\w+\s*=/gi, '')
RECURSIVE StripOnFrom(_, _)
StripOnFrom(s, i) ==
    IF i > Len(s) THEN <<>>
    ELSE IF OnHandlerEnd(s, i) # 0
         THEN StripOnFrom(s, OnHandlerEnd(s, i) + 1)
         ELSE <<s[i]>> \o StripOnFrom(s, i + 1)
StripOnHandlers(s) == StripOnFrom(s, 1)

\* sanitized.replace(/[\x00-\x08\x0B-\x0C\x0E-\x1F\x7F]/g, '')
StripControl(s) == SelectSeq(s, LAMBDA c : ~IsControl(c))

\* String.prototype.trim
trim(s) ==
    IF \A i \in 1..Len(s) : IsSpace(s[i]) THEN <<>>
    ELSE LET a == CHOOSE a \in 1..Len(s) :
                      ~IsSpace(s[a]) /\ \A k \in 1..(a - 1) : IsSpace(s[k])
             b == CHOOSE b \in 1..Len(s) :
                      ~IsSpace(s[b]) /\ \A k \in (b + 1)..Len(s) : IsSpace(s[k])
         IN  SubSeq(s, a, b)

\* sanitizeInput of a string (a non-string gives '')
sanitizeInput(input) ==
    trim(StripControl(StripOnHandlers(StripJavascript(StripTags(input)))))

(***************************************************************************)
(* escapeHtml and validateEmail.                                           *)
(***************************************************************************)
\* (mutant) the quote characters are missing from the map
EscapeCharAngles(c) ==
    CASE c = "&"  -> <<"&","a","m","p",";">>
      [] c = "<"  -> <<"&","l","t",";">>
      [] c = ">"  -> <<"&","g","t",";">>
      [] OTHER    -> <<c>>

EscapeChar(c) ==
    CASE c = "&"  -> <<"&","a","m","p",";">>
      [] c = "<"  -> <<"&","l","t",";">>
      [] c = ">"  -> <<"&","g","t",";">>
      [] c = "\"" -> <<"&","q","u","o","t",";">>
      [] c = "'"  -> <<"&","#","0","3","9",";">>
      [] OTHER    -> <<c>>
RECURSIVE escapeHtmlFrom(_, _)
escapeHtmlFrom(s, i) ==
    IF i > Len(s) THEN <<>> ELSE EscapeChar(s[i]) \o escapeHtmlFrom(s, i + 1)
escapeHtml(text) == escapeHtmlFrom(text, 1)

MaxEmailLen == 254
\* /^[^\s@]+@[^\s@]+\.[^\s@]+$/.test(email) && email.length <= 254
validateEmail(email) ==
    /\ Len(email) > 0
    /\ \A i \in 1..Len(email) : ~IsSpace(email[i])
    /\ Cardinality({i \in 1..Len(email) : email[i] = "@"}) = 1
    /\ LET at == CHOOSE i \in 1..Len(email) : email[i] = "@"
       IN  /\ at > 1
           /\ \E d \in (at + 2)..(Len(email) - 1) : email[d] = "."
    /\ Len(email) <= MaxEmailLen

(***************************************************************************)
(* Slug derivation.                                                        *)
(***************************************************************************)
\* .replace(/-+/g, '-'): a hyphen that follows a hyphen is dropped
CollapseHyphens(s) ==
    LET keep == {i \in 1..Len(s) : ~(s[i] = "-" /\ i > 1 /\ s[i - 1] = "-")}
        nth(n) == CHOOSE i \in keep : Cardinality({k \in keep : k <= i}) = n
    IN  [n \in 1..Cardinality(keep) |-> s[nth(n)]]

\* .replace(/[^a-z0-9-]/g, '-')
HyphenateChar(c) == IF IsLower(c) \/ IsDigit(c) \/ c = "-" THEN c ELSE "-"

PostDefault == <<"p","o","s","t">>
\* (mutant) the second replace, .replace(/-+/g, '-'), is left out
safeSlugUncollapsed(slug) ==
    LET lowered == toLowerCase(slug)
        hyphenated == [i \in 1..Len(lowered) |-> HyphenateChar(lowered[i])]
    IN  IF hyphenated = <<>> THEN PostDefault ELSE hyphenated

\* save-post: String(slug).toLowerCase().replace(/[^a-z0-9-]/g, '-')
\*                        .replace(/-+/g, '-') || 'post'
safeSlug(slug) ==
    LET lowered == toLowerCase(slug)
        hyphenated == [i \in 1..Len(lowered) |-> HyphenateChar(lowered[i])]
        collapsed == CollapseHyphens(hyphenated)
    IN  IF collapsed = <<>> THEN PostDefault ELSE collapsed

\* .replace(/\s+/g, '_'): a whitespace run becomes one underscore
UnderscoreSpaces(s) ==
    LET keep == {i \in 1..Len(s) : ~(IsSpace(s[i]) /\ i > 1 /\ IsSpace(s[i - 1]))}
        nth(n) == CHOOSE i \in keep : Cardinality({k \in keep : k <= i}) = n
    IN  [n \in 1..Cardinality(keep) |->
            IF IsSpace(s[nth(n)]) THEN "_" ELSE s[nth(n)]]

TestimonialSlugLen == 30
TestimonialDefault == <<"t","e","s","t","i","m","o","n","i","a","l">>
\* save-testimonial: String(name).replace(/\s+/g, '_')
\*   .replace(/[^a-zA-Z0-9_一-鿿-]/g, '').slice(0, 30) || 'testimonial'
testimonialSlug(name) ==
    LET kept == SelectSeq(UnderscoreSpaces(name),
                          LAMBDA c : IsWord(c) \/ c = "-" \/ c = "CJK")
        cut == SubSeq(kept, 1, IF Len(kept) < TestimonialSlugLen
                               THEN Len(kept) ELSE TestimonialSlugLen)
    IN  IF cut = <<>> THEN TestimonialDefault ELSE cut

(***************************************************************************)
(* Bounded inputs of the pure functions.                                   *)
(***************************************************************************)
MaxLen == 5
\* All strings over alphabet of length at most n
StringsUpTo(alphabet, n) == UNION {[1..k -> alphabet] : k \in 0..n}

\* One character of each class sanitizeInput tells apart
SanitizeAlphabet == {"<", ">", "o", "n", "=", " ", "CTL"}
SanitizeSamples ==
    { <<"<","s","c","r","i","p","t",">","a","l","e","r","t","(","1",")",
        "<","/","s","c","r","i","p","t",">">>,
      <<"<","b",">","h","i","<","/","b",">">>,
      <<"j","a","v","a","j","a","v","a","s","c","r","i","p","t",":",
        "s","c","r","i","p","t",":">>,
      <<"J","a","v","a","S","c","r","i","p","t",":","x">>,
      <<" ","o","n","c","l","i","c","k"," ","=","x","\n">> }
SanitizeInputs == StringsUpTo(SanitizeAlphabet, MaxLen) \cup SanitizeSamples

SlugAlphabet == {"a", "B", "1", "-", " ", "!"}
MyGreatPost == <<"M","y"," ","G","r","e","a","t"," ","P","o","s","t","!","!">>
HelloWorld == <<"H","e","l","l","o"," ","W","o","r","l","d">>
SlugInputs == (StringsUpTo(SlugAlphabet, MaxLen) \ {<<>>})
                \cup {MyGreatPost, HelloWorld}

(***************************************************************************)
(* Requests.                                                               *)
(*                                                                         *)
(* A request runs one handler once. Its record holds the input, the        *)
(* position of the handler (pc: the await it is suspended at), the         *)
(* outbound calls it has issued, what it has fetched and the response.     *)
(* pc = "crashed" is a handler whose promise rejected: it sent no response.*)
(***************************************************************************)
\* undefined (an absent field); a string is a sequence of one-character strings
Undefined == <<"undefined">>
\* !x of a field that is undefined or a string
Falsy(x) == x = Undefined \/ x = <<>>
\* x == null
IsNullish(x) == x = Undefined

\* null, for a sha that was not found
NullSha == 0

NoCall == [op |-> "none"]
IdleReq ==
    [ pc      |-> "idle",
      in      |-> [handler |-> "none"],
      calls   |-> <<>>,      \* outbound calls issued, in order
      sha     |-> NullSha,   \* the sha the last getFile / getFileSha returned
      status  |-> 0,         \* HTTP status of the response (0: none yet)
      nresp   |-> 0,         \* responses sent
      respId  |-> 0,         \* id of a 200 send-email response
      wrote   |-> {} ]       \* paths whose write the store accepted

\* res.status(code).json(...) / .end()
Respond(q, code) ==
    [q EXCEPT !.pc = "done", !.status = code, !.nresp = @ + 1]
\* an exception no try block catches
Crash(q) == [q EXCEPT !.pc = "crashed"]
\* an outbound fetch is sent and awaited
Issue(q, call, at) == [q EXCEPT !.pc = at, !.calls = Append(@, call)]
\* the awaited call returns: its outcome is noted in the log
Answer(q, result) == [q EXCEPT !.calls[Len(q.calls)].result = result]
Pending(q) == q.calls[Len(q.calls)]

(***************************************************************************)
(* send-email (api/send-email.js).                                         *)
(***************************************************************************)
MaxSubjectLen == 200
MaxTextLen == 10000

ScriptPat   == <<"<","s","c","r","i","p","t">>
DataHtmlPat == <<"d","a","t","a",":","t","e","x","t","/","h","t","m","l">>
VbscriptPat == <<"v","b","s","c","r","i","p","t",":">>
IframePat   == <<"<","i","f","r","a","m","e">>
ObjectPat   == <<"<","o","b","j","e","c","t">>
EmbedPat    == <<"<","e","m","b","e","d">>

\* some pattern of suspiciousPatterns tests true on s
Suspicious(s) ==
    \/ ContainsCI(s, ScriptPat)
    \/ ContainsCI(s, JavascriptPat)
    \/ \E i \in 1..Len(s) : OnHandlerEnd(s, i) # 0
    \/ ContainsCI(s, DataHtmlPat)
    \/ ContainsCI(s, VbscriptPat)
    \/ ContainsCI(s, IframePat)
    \/ ContainsCI(s, ObjectPat)
    \/ ContainsCI(s, EmbedPat)

\* The handler from its entry to its first await (the provider call) or to
\* the response it sends before that.
EmailValidated(q) ==
    LET b       == q.in.body
        to      == sanitizeInput(b.to)
        subject == sanitizeInput(b.subject)
        text    == sanitizeInput(b.text)
        replyTo == IF Falsy(b.replyTo) THEN b.replyTo ELSE sanitizeInput(b.replyTo)
    IN  IF ~validateEmail(to) THEN Respond(q, 400)
        ELSE IF Len(subject) > MaxSubjectLen THEN Respond(q, 400)
        ELSE IF Len(text) > MaxTextLen THEN Respond(q, 400)
        ELSE IF ~Falsy(replyTo) /\ ~validateEmail(replyTo) THEN Respond(q, 400)
        ELSE IF Suspicious(text) \/ Suspicious(subject) THEN Respond(q, 400)
        ELSE Issue(q, [op |-> "mail", result |-> "pending", pstatus |-> 0, to |-> to,
                       subject |-> escapeHtml(subject),
                       text |-> escapeHtml(text),
                       reply_to |-> IF Falsy(replyTo) THEN Undefined ELSE replyTo],
                   "call")

EmailEntry(q) ==
    IF q.in.method = "OPTIONS" THEN Respond(q, 200)
    ELSE IF q.in.method # "POST" THEN Respond(q, 405)
    ELSE IF ~q.in.env.key THEN Respond(q, 500)
    \* inside try: JSON.parse of a malformed string, or destructuring null,
    \* throws, and the catch block answers 500
    ELSE IF q.in.bodyKind = "malformed" THEN Respond(q, 500)
    ELSE IF q.in.bodyKind = "null" THEN Respond(q, 500)
    ELSE IF Falsy(q.in.body.to) \/ Falsy(q.in.body.subject) \/ Falsy(q.in.body.text)
         THEN Respond(q, 400)
    ELSE EmailValidated(q)

\* What the provider may answer: success with an id, a failure with its HTTP
\* status, or no usable answer (fetch rejects, or response.json() throws).
ProviderIds == {7}
ProviderFailures == {403, 422}
ProviderOutcomes ==
    {[kind |-> "ok", id |-> i, status |-> 200] : i \in ProviderIds}
      \cup {[kind |-> "fail", id |-> 0, status |-> s] : s \in ProviderFailures}
      \cup {[kind |-> "throw", id |-> 0, status |-> 0]}

\* (mutant) a failure the provider reports is answered 500, not its status
EmailAfterCallAs500(q0, out) ==
    LET q == [Answer(q0, out.kind) EXCEPT !.calls[Len(q0.calls)].pstatus = out.status]
    IN  IF out.kind = "throw" THEN Respond(q, 500)
        ELSE IF out.kind = "fail" THEN Respond(q, 500)
        ELSE [Respond(q, 200) EXCEPT !.respId = out.id]

\* The handler after the provider call returns
EmailAfterCall(q0, out) ==
    LET q == [Answer(q0, out.kind) EXCEPT !.calls[Len(q0.calls)].pstatus = out.status]
    IN  IF out.kind = "throw" THEN Respond(q, 500)
        ELSE IF out.kind = "fail" THEN Respond(q, out.status)
        ELSE [Respond(q, 200) EXCEPT !.respId = out.id]

(***************************************************************************)
(* The repository behind the GitHub contents API.                          *)
(*                                                                         *)
(* store maps each path that exists to [sha, content]. A sha is an opaque  *)
(* revision marker: every accepted write gives the file a new one.         *)
(***************************************************************************)
Path(dir, stem, ext) == [dir |-> dir, stem |-> stem, ext |-> ext]

Exists(p) == p \in DOMAIN store

\* The revision check of "create or update file contents": a write to an
\* existing file must carry that file's current sha, and a write that
\* carries no sha creates a file that does not exist yet.
StoreAccepts(p, sha) ==
    IF Exists(p) THEN sha = store[p].sha ELSE sha = NullSha

\* the store after an accepted write
Written(p, content) ==
    LET next == IF Exists(p) THEN store[p].sha + 1 ELSE 1
    IN  [q \in DOMAIN store \cup {p} |->
            IF q = p THEN [sha |-> next, content |-> content] ELSE store[q]]

\* getFile / getFileSha: what the function returns under each outcome of the
\* GET. "ok": the store answers (200 with the file, or 404); "non200": some
\* other status; "throw": fetch rejects or res.json() throws.
GetOutcomes == {"ok", "non200", "throw"}
GetFileResult(p, outcome) ==
    IF outcome = "throw"
    THEN [kind |-> "throw", sha |-> NullSha, content |-> <<>>]
    ELSE IF outcome = "ok" /\ Exists(p)
    THEN [kind |-> "found", sha |-> store[p].sha, content |-> store[p].content]
    ELSE [kind |-> "absent", sha |-> NullSha, content |-> <<>>]

\* putFile: "ok": the store answers (2xx, or the rejection of its revision
\* check); "neterr": the request fails before the store acts; "garbled": the
\* store acts and the answer cannot be read (res.json() throws).
PutOutcomes == {"ok", "neterr", "garbled"}
\* if (sha) body.sha = sha
BodySha(sha) == sha
\* whether the store applies the write
PutApplied(call, outcome) ==
    outcome # "neterr" /\ StoreAccepts(call.path, BodySha(call.sha))
\* whether putFile returns (true) or throws (false)
PutReturns(call, outcome) == outcome = "ok" /\ PutApplied(call, outcome)
PutResult(call, outcome) ==
    IF PutReturns(call, outcome) THEN "ok"
    ELSE IF outcome = "ok" THEN "rejected"
    ELSE outcome

GetCall(p) == [op |-> "get", result |-> "pending", path |-> p]
PutCall(p, content, sha) ==
    [op |-> "put", result |-> "pending", path |-> p, content |-> content, sha |-> sha]

(***************************************************************************)
(* Image payloads (both persistence handlers).                             *)
(***************************************************************************)
NoImage == [data |-> "none", extension |-> Undefined, bytes |-> 0]
\* imagePayload && imagePayload.data
HasImage(image) == image.data # "none"

JpgExt == <<"j","p","g">>
AllowedExts ==
    { JpgExt, <<"j","p","e","g">>, <<"p","n","g">>, <<"g","i","f">>,
      <<"w","e","b","p">> }
\* String(extension).replace(/^\./, '').toLowerCase(), or 'jpg'
ImgExt(image) ==
    IF ~Falsy(image.extension)
    THEN toLowerCase(IF image.extension[1] = "."
                     THEN SliceFrom(image.extension, 2)
                     ELSE image.extension)
    ELSE JpgExt

MaxImageBytes == 4 * 1024 * 1024

\* (mutant) the extension check is left out
ImageRejectionAnyType(image) ==
    IF image.data = "number" THEN 400
    ELSE IF image.bytes > MaxImageBytes THEN 400
    ELSE 0

\* (mutant) the size check is left out
ImageRejectionUnbounded(image) ==
    IF ImgExt(image) \notin AllowedExts THEN 400
    ELSE IF image.data = "number" THEN 400
    ELSE 0

\* The image checks between the document write and the image fetch: the
\* status they answer, or 0 when the image passes. Buffer.from throws on data
\* that is no string.
ImageRejection(image) ==
    IF ImgExt(image) \notin AllowedExts THEN 400
    ELSE IF image.data = "number" THEN 400
    ELSE IF image.bytes > MaxImageBytes THEN 400
    ELSE 0

(***************************************************************************)
(* save-post.                                                              *)
(***************************************************************************)
\* the configuration checks both persistence handlers start with: the status
\* they answer, or 0 when GITHUB_TOKEN and GITHUB_REPO (owner/repo) are set
ConfigRejection(env) ==
    IF ~env.token \/ env.repo = "missing" THEN 500
    ELSE IF env.repo = "invalid" THEN 500
    ELSE 0

DateLen == 10
\* String(date).trim().slice(0, 10)
DateStr(date) ==
    LET s == trim(date)
    IN  SubSeq(s, 1, IF Len(s) < DateLen THEN Len(s) ELSE DateLen)

\* (mutant) the date is not cut to its first 10 characters
PostPathWholeDate(b) ==
    Path("_posts/", trim(b.date) \o <<"-">> \o safeSlug(b.slug), <<"m","d">>)

\* `_posts/${dateStr}-${safeSlug}.md`
PostPath(b) ==
    Path("_posts/", DateStr(b.date) \o <<"-">> \o safeSlug(b.slug), <<"m","d">>)
\* `img/programs/blog_${safeSlug}.${imgExt}`
PostImgPath(b) ==
    Path("img/programs/", <<"b","l","o","g","_">> \o safeSlug(b.slug), ImgExt(b.image))
NoRef == Path("", <<>>, <<>>)

\* The markdown document, as the fields of its front matter that identify
\* it: who wrote it, its date, its permalink slug and its image reference
\* (a line the front matter only has when an image was supplied).
PostDoc(r, b) ==
    [ by    |-> r,
      date  |-> DateStr(b.date),
      slug  |-> safeSlug(b.slug),
      image |-> IF HasImage(b.image) THEN PostImgPath(b) ELSE NoRef ]

ImageBuffer(r, image) == [by |-> r, bytes |-> image.bytes]

PostMissing(b) ==
    Falsy(b.title) \/ Falsy(b.date) \/ Falsy(b.slug) \/ Falsy(b.excerpt)
      \/ IsNullish(b.content)

\* from the entry to the first await (getFileSha of the post path)
PostEntry(q) ==
    IF q.in.method = "OPTIONS" THEN Respond(q, 200)
    ELSE IF q.in.method # "POST" THEN Respond(q, 405)
    ELSE IF ConfigRejection(q.in.env) # 0 THEN Respond(q, ConfigRejection(q.in.env))
    ELSE IF q.in.bodyKind = "malformed" THEN Respond(q, 400)
    \* destructuring null throws outside every try block
    ELSE IF q.in.bodyKind = "null" THEN Crash(q)
    ELSE IF PostMissing(q.in.body) THEN Respond(q, 400)
    ELSE Issue(q, GetCall(PostPath(q.in.body)), "get1")

\* getFileSha(postPath) returned or threw (inside try)
PostAfterGet1(r, q0, res) ==
    LET q == Answer(q0, res.kind)
    IN  IF res.kind = "throw" THEN Respond(q, 500)
        ELSE Issue([q EXCEPT !.sha = res.sha],
                   PutCall(PostPath(q.in.body), PostDoc(r, q.in.body), res.sha),
                   "put1")

\* (mutant) a failed write of the post is not noticed
PostAfterPut1Unchecked(r, q0, result) ==
    LET q == Answer(q0, result)
        image == q.in.body.image
    IN  IF ~HasImage(image) THEN Respond(q, 200)
        ELSE IF ImageRejection(image) # 0 THEN Respond(q, ImageRejection(image))
        ELSE Issue(q, GetCall(PostImgPath(q.in.body)), "get2")

\* putFile(postPath, markdown, ..., shaPost) returned or threw
PostAfterPut1(r, q0, result) ==
    LET q == Answer(q0, result)
        image == q.in.body.image
    IN  IF result # "ok" THEN Respond(q, 500)
        ELSE IF ~HasImage(image) THEN Respond(q, 200)
        ELSE IF ImageRejection(image) # 0 THEN Respond(q, ImageRejection(image))
        ELSE Issue(q, GetCall(PostImgPath(q.in.body)), "get2")

\* getFileSha(imgPath) returned or threw
PostAfterGet2(r, q0, res) ==
    LET q == Answer(q0, res.kind)
    IN  IF res.kind = "throw" THEN Respond(q, 500)
        ELSE Issue([q EXCEPT !.sha = res.sha],
                   PutCall(PostImgPath(q.in.body),
                           ImageBuffer(r, q.in.body.image), res.sha),
                   "put2")

\* (mutant) a failed image write is not noticed
PostAfterPut2Unchecked(r, q0, result) == Respond(Answer(q0, result), 200)

\* putFile(imgPath, imageBuffer, ..., shaImg) returned or threw
PostAfterPut2(r, q0, result) ==
    LET q == Answer(q0, result)
    IN  IF result # "ok" THEN Respond(q, 500) ELSE Respond(q, 200)

(***************************************************************************)
(* save-testimonial (api/save-testimonial.js).                             *)
(***************************************************************************)
YamlSpecials == {":", "\"", "#", "[", "]", "{", "}", "|", ">", "*", "'"}
YamlEscapeChar(c) ==
    CASE c = "\\" -> <<"\\","\\">>
      [] c = "\"" -> <<"\\","\"">>
      [] c = "\n" -> <<"\\","n">>
      [] OTHER    -> <<c>>
RECURSIVE YamlEscapeFrom(_, _)
YamlEscapeFrom(s, i) ==
    IF i > Len(s) THEN <<>> ELSE YamlEscapeChar(s[i]) \o YamlEscapeFrom(s, i + 1)
\* escapeYamlValue
escapeYamlValue(str) ==
    IF IsNullish(str) THEN <<>>
    ELSE LET s == trim(str)
         IN  IF s = <<>> THEN <<>>
             ELSE IF \E i \in 1..Len(s) : s[i] \in YamlSpecials
                  THEN <<"\"">> \o YamlEscapeFrom(s, 1) \o <<"\"">>
                  ELSE s

TESTIMONIALS_PATH == Path("_data/", <<"testimonials">>, <<"y","m","l">>)
\* `img/testimonials/${slug}.${imgExt}`
TestimonialImgPath(b) ==
    Path("img/testimonials/", testimonialSlug(b.name), ImgExt(b.image))
DefaultImgPath == Path("img/testimonials/", <<"d","e","f","a","u","l","t">>, JpgExt)

\* The list document is a sequence of entries and blank lines. An entry keeps
\* who appended it, its name line and its image line.
BlankLine == [kind |-> "blank", by |-> 0, name |-> <<>>, image |-> NoRef]
NewEntry(r, b) ==
    [ kind  |-> "entry",
      by    |-> r,
      name  |-> escapeYamlValue(b.name),
      image |-> IF HasImage(b.image) THEN TestimonialImgPath(b) ELSE DefaultImgPath ]

\* (existingYaml || '').trimEnd()
RECURSIVE trimEnd(_)
trimEnd(doc) ==
    IF doc # <<>> /\ doc[Len(doc)].kind = "blank"
    THEN trimEnd(SubSeq(doc, 1, Len(doc) - 1))
    ELSE doc

\* (mutant) the new entry replaces the document instead of extending it
NewYamlOverwrite(r, b, existingYaml) == <<NewEntry(r, b)>>

\* trimmed + newEntry + '\n'
NewYaml(r, b, existingYaml) == Append(trimEnd(existingYaml), NewEntry(r, b))

TestimonialMissing(b) ==
    Falsy(b.name) \/ Falsy(b.category) \/ IsNullish(b.content)

\* from the entry to the first await (getFile of the list document)
TestimonialEntry(q) ==
    IF q.in.method = "OPTIONS" THEN Respond(q, 200)
    ELSE IF q.in.method # "POST" THEN Respond(q, 405)
    ELSE IF ConfigRejection(q.in.env) # 0 THEN Respond(q, ConfigRejection(q.in.env))
    ELSE IF q.in.bodyKind = "malformed" THEN Respond(q, 400)
    \* destructuring null throws outside every try block
    ELSE IF q.in.bodyKind = "null" THEN Crash(q)
    ELSE IF TestimonialMissing(q.in.body) THEN Respond(q, 400)
    ELSE Issue(q, GetCall(TESTIMONIALS_PATH), "get1")

\* getFile(TESTIMONIALS_PATH) returned or threw (outside every try block)
TestimonialAfterGet1(r, q0, res) ==
    LET q == Answer(q0, res.kind)
    IN  IF res.kind = "throw" THEN Crash(q)
        ELSE Issue([q EXCEPT !.sha = res.sha],
                   PutCall(TESTIMONIALS_PATH,
                           NewYaml(r, q.in.body, res.content), res.sha),
                   "put1")

\* (mutant) a failed write of the list document is logged and swallowed, as
\* a failed image write is
TestimonialAfterPut1Swallowed(r, q0, result) ==
    LET q == Answer(q0, result)
        image == q.in.body.image
    IN  IF ~HasImage(image) THEN Respond(q, 200)
        ELSE IF ImageRejection(image) # 0 THEN Respond(q, ImageRejection(image))
        ELSE Issue(q, GetCall(TestimonialImgPath(q.in.body)), "get2")

\* putFile(TESTIMONIALS_PATH, newYaml, ..., yamlSha) returned or threw
TestimonialAfterPut1(r, q0, result) ==
    LET q == Answer(q0, result)
        image == q.in.body.image
    IN  IF result # "ok" THEN Respond(q, 500)
        ELSE IF ~HasImage(image) THEN Respond(q, 200)
        ELSE IF ImageRejection(image) # 0 THEN Respond(q, ImageRejection(image))
        ELSE Issue(q, GetCall(TestimonialImgPath(q.in.body)), "get2")

\* getFile(imgPath) returned or threw (outside every try block)
TestimonialAfterGet2(r, q0, res) ==
    LET q == Answer(q0, res.kind)
    IN  IF res.kind = "throw" THEN Crash(q)
        ELSE Issue([q EXCEPT !.sha = res.sha],
                   PutCall(TestimonialImgPath(q.in.body),
                           ImageBuffer(r, q.in.body.image), res.sha),
                   "put2")

\* (mutant) a failed image write fails the request
TestimonialAfterPut2Checked(r, q0, result) ==
    LET q == Answer(q0, result)
    IN  IF result # "ok" THEN Respond(q, 500) ELSE Respond(q, 200)

\* putFile(imgPath, buf, ..., imgSha) returned, or threw and was logged
TestimonialAfterPut2(r, q0, result) == Respond(Answer(q0, result), 200)

(***************************************************************************)
(* The inputs requests are drawn from.                                     *)
(***************************************************************************)
MaxFaults == 1

Request(handler, method, env, bodyKind, body) ==
    [handler |-> handler, method |-> method, env |-> env,
     bodyKind |-> bodyKind, body |-> body]

EnvOk == [key |-> TRUE, token |-> TRUE, repo |-> "ok"]
\* RESEND_API_KEY set or not
EmailEnvs == {[EnvOk EXCEPT !.key = k] : k \in BOOLEAN}
\* GITHUB_TOKEN and GITHUB_REPO set, unset, or not of the form owner/repo
StoreEnvs ==
    {EnvOk, [EnvOk EXCEPT !.token = FALSE], [EnvOk EXCEPT !.repo = "missing"],
     [EnvOk EXCEPT !.repo = "invalid"]}

GoodAddress == <<"a","@","b",".","c","o">>
BadAddress == <<"b","a","d">>
ScriptAlert ==
    <<"<","s","c","r","i","p","t",">","a","l","e","r","t","(","1",")",
      "<","/","s","c","r","i","p","t",">">>
BoldHi == <<"<","b",">","h","i","<","/","b",">">>
NestedJavascript ==
    <<"j","a","v","a","j","a","v","a","s","c","r","i","p","t",":",
      "s","c","r","i","p","t",":">>
\* text with every character escapeHtml replaces, and no complete tag
RawMarkup == <<"1",">","0"," ","\"","a","'"," ","&"," ","<","b">>
Subjects ==
    { Undefined,
      <<"h","i">>,
      <<"a","<","b">>,
      <<"<","i","f","r","a","m","e",">","h","i">>,
      VbscriptPat \o <<"x">> }
Texts ==
    { Undefined,
      <<"h","e","l","l","o">>,
      ScriptAlert,
      BoldHi,
      ScriptPat \o <<" ","x">>,
      NestedJavascript,
      DataHtmlPat,
      RawMarkup }
EmailBodies ==
    [ to : {Undefined, GoodAddress, BadAddress},
      subject : Subjects,
      text : Texts,
      replyTo : {Undefined, GoodAddress, BadAddress} ]
PlainEmailBody ==
    [to |-> GoodAddress, subject |-> <<"h","i">>, text |-> <<"h","e","l","l","o">>,
     replyTo |-> Undefined]
EmailInputs ==
    {Request("email", m, e, "object", PlainEmailBody) :
        m \in {"OPTIONS", "GET", "POST"}, e \in EmailEnvs}
      \* a body that is no object: a string that is not JSON, or null
      \cup {Request("email", "POST", EnvOk, k,
                    [to |-> Undefined, subject |-> Undefined, text |-> Undefined,
                     replyTo |-> Undefined]) :
              k \in {"malformed", "null"}}
      \cup {Request("email", "POST", EnvOk, "object", b) : b \in EmailBodies}

Images ==
    {NoImage}
      \cup {[data |-> "base64", extension |-> e, bytes |-> n] :
              e \in {<<".","P","N","G">>, <<"e","x","e">>},
              n \in {MaxImageBytes, MaxImageBytes + 1}}
      \cup {[data |-> "number", extension |-> Undefined, bytes |-> 0]}

IsoDate == <<"2","0","2","4","-","0","1","-","0","2">>
HelloWorldSlug == <<"h","e","l","l","o","-","w","o","r","l","d">>
PlainPostBody ==
    [title |-> <<"H","e","l","l","o">>, date |-> IsoDate, slug |-> HelloWorld,
     excerpt |-> <<"x">>, content |-> <<"b","o","d","y">>, image |-> NoImage]
\* every required field present
FullPostBodies ==
    {[PlainPostBody EXCEPT !.slug = s, !.image = i] :
        s \in {HelloWorld, HelloWorldSlug, MyGreatPost}, i \in Images}
\* one required field undefined or empty
PartialPostBodies ==
    { [PlainPostBody EXCEPT !.title = Undefined],
      [PlainPostBody EXCEPT !.date = Undefined],
      [PlainPostBody EXCEPT !.slug = <<>>],
      [PlainPostBody EXCEPT !.excerpt = Undefined],
      [PlainPostBody EXCEPT !.content = Undefined] }
ValidPostInputs ==
    {Request("post", "POST", EnvOk, "object", b) : b \in FullPostBodies}
PostInputs ==
    {Request("post", m, e, "object", PlainPostBody) :
        m \in {"OPTIONS", "GET", "POST"}, e \in StoreEnvs}
      \cup {Request("post", "POST", EnvOk, k,
                    [title |-> Undefined, date |-> Undefined, slug |-> Undefined,
                     excerpt |-> Undefined, content |-> Undefined,
                     image |-> NoImage]) :
              k \in {"malformed", "null"}}
      \cup {Request("post", "POST", EnvOk, "object", b) : b \in PartialPostBodies}
      \cup {Request("post", "POST", EnvOk, "object",
                    [PlainPostBody EXCEPT !.content = <<>>])}
      \cup ValidPostInputs

Amy == <<"A","m","y">>
BoLi == <<"B","o"," ","L","i">>
PlainTestimonialBody ==
    [name |-> Amy, category |-> <<"f","i","t">>, content |-> <<"g","o","o","d">>,
     image |-> NoImage]
FullTestimonialBodies ==
    {[PlainTestimonialBody EXCEPT !.name = n, !.image = i] :
        n \in {Amy, BoLi}, i \in Images}
PartialTestimonialBodies ==
    { [PlainTestimonialBody EXCEPT !.name = Undefined],
      [PlainTestimonialBody EXCEPT !.category = <<>>],
      [PlainTestimonialBody EXCEPT !.content = Undefined] }
ValidTestimonialInputs ==
    {Request("testimonial", "POST", EnvOk, "object", b) : b \in FullTestimonialBodies}
TestimonialInputs ==
    {Request("testimonial", m, e, "object", PlainTestimonialBody) :
        m \in {"OPTIONS", "GET", "POST"}, e \in StoreEnvs}
      \cup {Request("testimonial", "POST", EnvOk, k,
                    [name |-> Undefined, category |-> Undefined,
                     content |-> Undefined, image |-> NoImage]) :
              k \in {"malformed", "null"}}
      \cup {Request("testimonial", "POST", EnvOk, "object", b) :
              b \in PartialTestimonialBodies}
      \cup ValidTestimonialInputs

(***************************************************************************)
(* The repository a run starts from: empty, or holding a list document     *)
(* (one entry and a trailing blank line), a post and the two images.       *)
(***************************************************************************)
EmptyStore == [p \in {} |-> [sha |-> NullSha, content |-> <<>>]]
SeedEntry ==
    [kind |-> "entry", by |-> 0, name |-> <<"Z","o","e">>, image |-> DefaultImgPath]
PngImage == [data |-> "base64", extension |-> <<".","P","N","G">>, bytes |-> 1]
SeedPostBody == [PlainPostBody EXCEPT !.image = PngImage]
SeedTestimonialBody == [PlainTestimonialBody EXCEPT !.image = PngImage]
SeededStore ==
    LET files ==
          { <<TESTIMONIALS_PATH, <<SeedEntry, BlankLine>>>>,
            <<PostPath(SeedPostBody), PostDoc(0, SeedPostBody)>>,
            <<PostImgPath(SeedPostBody), ImageBuffer(0, PngImage)>>,
            <<TestimonialImgPath(SeedTestimonialBody), ImageBuffer(0, PngImage)>> }
    IN  [p \in {f[1] : f \in files} |->
            [sha |-> 1, content |-> (CHOOSE f \in files : f[1] = p)[2]]]
InitStores == {EmptyStore, SeededStore}

(***************************************************************************)
(* Actions: a request arrives and its handler runs to its first await, or  *)
(* an awaited call returns and the handler runs to its next await.         *)
(***************************************************************************)
labVars == <<sIn, sOnce, sTwice, sPc, slugIn, slugOut, slugPc>>
LabsOff ==
    /\ sIn = <<>> /\ sOnce = <<>> /\ sTwice = <<>> /\ sPc = "off"
    /\ slugIn = <<>> /\ slugOut = <<>> /\ slugPc = "off"

Arrive(r, in, Entry(_)) ==
    /\ req[r].pc = "idle"
    /\ req' = [req EXCEPT ![r] = Entry([IdleReq EXCEPT !.in = in])]
    /\ UNCHANGED <<store, faults, labVars>>

\* the GET a handler awaits returns
Fetched(r, handler, at, After(_, _, _), outcome) ==
    /\ req[r].pc = at
    /\ req[r].in.handler = handler
    /\ outcome = "ok" \/ faults < MaxFaults
    /\ outcome = "non200" => Exists(Pending(req[r]).path)
    /\ req' = [req EXCEPT
                 ![r] = After(r, req[r], GetFileResult(Pending(req[r]).path, outcome))]
    /\ faults' = IF outcome = "ok" THEN faults ELSE faults + 1
    /\ UNCHANGED <<store, labVars>>

\* the PUT a handler awaits returns
Put(r, handler, at, After(_, _, _), outcome) ==
    LET call == Pending(req[r])
        applied == PutApplied(call, outcome)
    IN  /\ req[r].pc = at
        /\ req[r].in.handler = handler
        /\ outcome = "ok" \/ faults < MaxFaults
        /\ outcome = "garbled" => applied
        /\ store' = IF applied THEN Written(call.path, call.content) ELSE store
        /\ req' = [req EXCEPT
                     ![r] = [After(r, req[r], PutResult(call, outcome)) EXCEPT
                               !.wrote = IF applied THEN @ \cup {call.path} ELSE @]]
        /\ faults' = IF outcome = "ok" THEN faults ELSE faults + 1
        /\ UNCHANGED labVars

StartEmail(r, in) == Arrive(r, in, EmailEntry)
ProviderAnswers(r, out) ==
    /\ req[r].pc = "call"
    /\ req' = [req EXCEPT ![r] = EmailAfterCall(req[r], out)]
    /\ UNCHANGED <<store, faults, labVars>>

StartPost(r, in) == Arrive(r, in, PostEntry)
PostFetchedSha(r, o) == Fetched(r, "post", "get1", PostAfterGet1, o)
PostWritten(r, o) == Put(r, "post", "put1", PostAfterPut1, o)
PostFetchedImgSha(r, o) == Fetched(r, "post", "get2", PostAfterGet2, o)
PostImgWritten(r, o) == Put(r, "post", "put2", PostAfterPut2, o)

StartTestimonial(r, in) == Arrive(r, in, TestimonialEntry)
TestimonialFetched(r, o) == Fetched(r, "testimonial", "get1", TestimonialAfterGet1, o)
TestimonialWritten(r, o) == Put(r, "testimonial", "put1", TestimonialAfterPut1, o)
TestimonialFetchedImg(r, o) == Fetched(r, "testimonial", "get2", TestimonialAfterGet2, o)
TestimonialImgWritten(r, o) == Put(r, "testimonial", "put2", TestimonialAfterPut2, o)

\* the steps of the two persistence handlers after a request has arrived
StoreStep(r) ==
    \/ \E o \in GetOutcomes : PostFetchedSha(r, o)
    \/ \E o \in PutOutcomes : PostWritten(r, o)
    \/ \E o \in GetOutcomes : PostFetchedImgSha(r, o)
    \/ \E o \in PutOutcomes : PostImgWritten(r, o)
    \/ \E o \in GetOutcomes : TestimonialFetched(r, o)
    \/ \E o \in PutOutcomes : TestimonialWritten(r, o)
    \/ \E o \in GetOutcomes : TestimonialFetchedImg(r, o)
    \/ \E o \in PutOutcomes : TestimonialImgWritten(r, o)

(***************************************************************************)
(* Spec: one request to any of the three handlers, any input.              *)
(***************************************************************************)
Init ==
    /\ req = [r \in {1} |-> IdleReq]
    /\ store \in InitStores
    /\ faults = 0
    /\ LabsOff

Next ==
    \E r \in DOMAIN req :
        \/ \E in \in EmailInputs : StartEmail(r, in)
        \/ \E out \in ProviderOutcomes : ProviderAnswers(r, out)
        \/ \E in \in PostInputs : StartPost(r, in)
        \/ \E in \in TestimonialInputs : StartTestimonial(r, in)
        \/ StoreStep(r)

Spec == Init /\ [][Next]_vars

(***************************************************************************)
(* SpecConc: concurrent valid submissions to the persistence handlers.     *)
(* Requests are numbered in the order they arrive.                         *)
(***************************************************************************)
ConcReqs == 2

InOrder(r) == IF r = 1 THEN TRUE ELSE req[r - 1].pc # "idle"

InitConc ==
    /\ req = [r \in 1..ConcReqs |-> IdleReq]
    /\ store \in InitStores
    /\ faults = 0
    /\ LabsOff

NextConc ==
    \E r \in DOMAIN req :
        \/ \E in \in ValidPostInputs : InOrder(r) /\ StartPost(r, in)
        \/ \E in \in ValidTestimonialInputs : InOrder(r) /\ StartTestimonial(r, in)
        \/ StoreStep(r)

SpecConc == InitConc /\ [][NextConc]_vars

(***************************************************************************)
(* SpecSeq: save-testimonial requests handled one after another.           *)
(***************************************************************************)
SeqReqs == 3

Finished(q) == q.pc \in {"done", "crashed"}
Quiet == \A r \in DOMAIN req : req[r].pc = "idle" \/ Finished(req[r])

InitSeq ==
    /\ req = [r \in 1..SeqReqs |-> IdleReq]
    /\ store \in InitStores
    /\ faults = 0
    /\ LabsOff

NextSeq ==
    \E r \in DOMAIN req :
        \/ \E in \in ValidTestimonialInputs :
              Quiet /\ InOrder(r) /\ StartTestimonial(r, in)
        \/ \E o \in GetOutcomes : TestimonialFetched(r, o)
        \/ \E o \in PutOutcomes : TestimonialWritten(r, o)
        \/ \E o \in GetOutcomes : TestimonialFetchedImg(r, o)
        \/ \E o \in PutOutcomes : TestimonialImgWritten(r, o)

SpecSeq == InitSeq /\ [][NextSeq]_vars

(***************************************************************************)
(* SpecSanitize and SpecSlug: the pure functions on bounded inputs.        *)
(***************************************************************************)
HandlersOff ==
    /\ req = [r \in {1} |-> IdleReq]
    /\ store = EmptyStore
    /\ faults = 0

InitSanitize ==
    /\ HandlersOff
    /\ sIn \in SanitizeInputs /\ sOnce = <<>> /\ sTwice = <<>> /\ sPc = "in"
    /\ slugIn = <<>> /\ slugOut = <<>> /\ slugPc = "off"

SanitizeOnce ==
    /\ sPc = "in"
    /\ sOnce' = sanitizeInput(sIn)
    /\ sPc' = "once"
    /\ UNCHANGED <<req, store, faults, sIn, sTwice, slugIn, slugOut, slugPc>>

SanitizeTwice ==
    /\ sPc = "once"
    /\ sTwice' = sanitizeInput(sOnce)
    /\ sPc' = "twice"
    /\ UNCHANGED <<req, store, faults, sIn, sOnce, slugIn, slugOut, slugPc>>

NextSanitize == SanitizeOnce \/ SanitizeTwice
SpecSanitize == InitSanitize /\ [][NextSanitize]_vars

InitSlug ==
    /\ HandlersOff
    /\ sIn = <<>> /\ sOnce = <<>> /\ sTwice = <<>> /\ sPc = "off"
    /\ slugIn \in SlugInputs /\ slugOut = <<>> /\ slugPc = "in"

DeriveSlug ==
    /\ slugPc = "in"
    /\ slugOut' = safeSlug(slugIn)
    /\ slugPc' = "out"
    /\ UNCHANGED <<req, store, faults, sIn, sOnce, sTwice, sPc, slugIn>>

NextSlug == DeriveSlug
SpecSlug == InitSlug /\ [][NextSlug]_vars

(***************************************************************************)
(* Properties.                                                             *)
(***************************************************************************)
Started(q) == q.pc # "idle"
CallsOf(q, op) == {i \in 1..Len(q.calls) : q.calls[i].op = op}
\* the outbound call failed unexpectedly: no answer, or one that cannot be read
Failed(call) == call.result \in {"throw", "neterr", "garbled"}

Configured(in) ==
    IF in.handler = "email" THEN in.env.key ELSE ConfigRejection(in.env) = 0
MissingRequired(in) ==
    CASE in.handler = "email" ->
           Falsy(in.body.to) \/ Falsy(in.body.subject) \/ Falsy(in.body.text)
      [] in.handler = "post" -> PostMissing(in.body)
      [] in.handler = "testimonial" -> TestimonialMissing(in.body)
\* the body is no object to read a field of, or an object without the field
LacksRequired(in) ==
    in.bodyKind = "null" \/ (in.bodyKind = "object" /\ MissingRequired(in))

\* C1: a POST, with the configuration present, whose body lacks a required
\* field is answered 400 and has issued no outbound call.
C1_MissingFieldIs400 ==
    \A r \in DOMAIN req :
        LET q == req[r]
        IN  (Started(q) /\ q.in.method = "POST" /\ Configured(q.in)
               /\ LacksRequired(q.in))
              => (q.pc = "done" /\ q.status = 400 /\ q.calls = <<>>)

\* C2: a POST to send-email whose submitted subject or body contains a
\* denylisted signature is answered 400 and makes no provider call.
C2_DenylistedIs400 ==
    \A r \in DOMAIN req :
        LET q == req[r]
        IN  (Started(q) /\ q.in.handler = "email" /\ q.in.method = "POST"
               /\ q.in.env.key /\ q.in.bodyKind = "object"
               /\ (Suspicious(q.in.body.subject) \/ Suspicious(q.in.body.text)))
              => (q.pc = "done" /\ q.status = 400 /\ CallsOf(q, "mail") = {})

\* the list document as the store holds it (empty when there is none)
ListDoc(s) ==
    IF TESTIMONIALS_PATH \in DOMAIN s THEN s[TESTIMONIALS_PATH].content ELSE <<>>
\* its entries, blank lines left out
Entries(doc) == SelectSeq(doc, LAMBDA l : l.kind = "entry")
IsPrefix(a, b) == Len(a) <= Len(b) /\ SubSeq(b, 1, Len(a)) = a
Answered200(q) == q.pc = "done" /\ q.status = 200
NumStarted == Cardinality({r \in DOMAIN req : Started(req[r])})

\* After save-testimonial requests handled one after another that each ended
\* in 200, the entries appended are one per request, in submission order.
AppendedInOrder ==
    (Quiet /\ \A r \in DOMAIN req : Started(req[r]) => Answered200(req[r]))
      => SelectSeq(Entries(ListDoc(store)), LAMBDA l : l.by # 0)
           = [r \in 1..NumStarted |-> NewEntry(r, req[r].in.body)]

\* No step changes or removes an entry the list document holds.
EntriesKept == IsPrefix(Entries(ListDoc(store)), Entries(ListDoc(store'))) 

\* C3: testimonial entries are append-only. Under sequential handling, after
\* requests that each end in 200 the list document holds one entry per
\* request in submission order (two for two requests with the same name), and
\* every entry written earlier, or there from the start, stays as it was.
C3_AppendOnly == [](AppendedInOrder) /\ [][EntriesKept]_vars

\* Two requests with the same name have each been answered 200 and the list
\* document holds an entry of each.
C3_Witness ==
    /\ Quiet
    /\ Answered200(req[1]) /\ Answered200(req[2])
    /\ req[1].in.body.name = req[2].in.body.name
    /\ \E i, j \in 1..Len(ListDoc(store)) :
          /\ i < j
          /\ ListDoc(store)[i] = NewEntry(1, req[1].in.body)
          /\ ListDoc(store)[j] = NewEntry(2, req[2].in.body)
          /\ ListDoc(store)[i].name = ListDoc(store)[j].name

\* the store applied the write
Applied(call) == call.op = "put" /\ call.result \in {"ok", "garbled"}
\* the store's revision check refused the write
Rejected(call) == call.op = "put" /\ call.result = "rejected"
\* the write carried no sha
Markerless(call) == call.op = "put" /\ BodySha(call.sha) = NullSha
PutsOf(r) == {<<r, i>> : i \in CallsOf(req[r], "put")}
AllPuts == UNION {PutsOf(r) : r \in DOMAIN req}
CallAt(c) == req[c[1]].calls[c[2]]
\* the file at p holds what request r submitted
Holds(p, r) ==
    /\ Exists(p)
    /\ IF p = TESTIMONIALS_PATH
       THEN /\ req[r].in.handler = "testimonial"
            /\ \E i \in 1..Len(store[p].content) :
                  store[p].content[i] = NewEntry(r, req[r].in.body)
       ELSE store[p].content.by = r

\* No two applied writes of one path were based on the same revision.
NoLostUpdate ==
    \A c, d \in AllPuts :
        (c # d /\ CallAt(c).path = CallAt(d).path /\ Applied(CallAt(c))
           /\ Applied(CallAt(d)))
          => BodySha(CallAt(c).sha) # BodySha(CallAt(d).sha)

\* Every save-testimonial request answered 200 has its entry in the list
\* document.
AnsweredEntriesPresent ==
    \A r \in DOMAIN req :
        (req[r].in.handler = "testimonial" /\ Answered200(req[r]))
          => Holds(TESTIMONIALS_PATH, r)

\* C4 as stated: of two concurrent submissions to one path, the one whose
\* write carries a stale revision marker is rejected and its request fails
\* with 500, nothing is overwritten silently, and every save-testimonial
\* request answered 200 has its entry in the list document.
C4_StaleWriterFails500 ==
    /\ \A c \in AllPuts :
          (faults = 0 /\ Rejected(CallAt(c)) /\ Finished(req[c[1]]))
            => (req[c[1]].pc = "done" /\ req[c[1]].status = 500)
    /\ NoLostUpdate
    /\ AnsweredEntriesPresent

\* the write of a save-testimonial image, whose failure is logged and swallowed
SwallowedWrite(c) ==
    req[c[1]].in.handler = "testimonial" /\ CallAt(c).path # TESTIMONIALS_PATH

\* C4 (amended): a write with a stale revision marker is rejected by the
\* store and never overwrites; the request then fails with 500, except that a
\* rejected save-testimonial image write is swallowed and the request is still
\* answered 200. Every save-testimonial request answered 200 has its entry in
\* the list document.
C4_StaleWriteRejected ==
    /\ \A c \in AllPuts :
          (Rejected(CallAt(c)) /\ Finished(req[c[1]]))
            => /\ req[c[1]].pc = "done"
               /\ req[c[1]].status = IF SwallowedWrite(c) THEN 200 ELSE 500
               /\ CallAt(c).path \notin req[c[1]].wrote
    /\ NoLostUpdate
    /\ AnsweredEntriesPresent

\* Two submissions raced on one path with no outbound failure: the later
\* writer was rejected and answered 500, the earlier one answered 200.
C4_Witness ==
    /\ faults = 0
    /\ \E c, d \in AllPuts :
          /\ c[1] # d[1]
          /\ CallAt(c).path = CallAt(d).path
          /\ CallAt(c).sha = CallAt(d).sha
          /\ Applied(CallAt(c)) /\ Answered200(req[c[1]])
          /\ Rejected(CallAt(d)) /\ req[d[1]].pc = "done" /\ req[d[1]].status = 500

\* Requests c[1] and d[1] both fetched "no prior revision" for one path that
\* did not exist and both wrote it without a marker; both writes were answered.
BothCreate(c, d) ==
    /\ c[1] # d[1]
    /\ CallAt(c).path = CallAt(d).path
    /\ Markerless(CallAt(c)) /\ Markerless(CallAt(d))
    /\ req[c[1]].calls[c[2] - 1].result = "absent"
    /\ req[d[1]].calls[d[2] - 1].result = "absent"
    /\ CallAt(c).result # "pending" /\ CallAt(d).result # "pending"

\* C5: two requests that both fetched "no prior revision" for one path and
\* both wrote it without a marker never both have their content stored: at most
\* one of the two writes is applied and the file holds only that submission's
\* content. The other write is lost: its request is answered 500, or, for the
\* save-testimonial image write whose failure is swallowed, 200 like the winner.
C5_LostUpdate ==
    \A c, d \in AllPuts :
        BothCreate(c, d)
          => /\ ~(Applied(CallAt(c)) /\ Applied(CallAt(d)))
             /\ ~(Holds(CallAt(c).path, c[1]) /\ Holds(CallAt(c).path, d[1]))
             /\ (Rejected(CallAt(d)) /\ Finished(req[d[1]]))
                   => /\ ~Holds(CallAt(d).path, d[1])
                      /\ req[d[1]].status = IF SwallowedWrite(d) THEN 200 ELSE 500

\* The interleaving of the claim, with no outbound failure: both requests
\* fetched "no prior revision" for a path that did not exist, both wrote it
\* without a marker, both are answered 200, and the file holds only the
\* content of one of them.
C5_Witness ==
    /\ faults = 0
    /\ \E c, d \in AllPuts :
          /\ BothCreate(c, d)
          /\ Answered200(req[c[1]]) /\ Answered200(req[d[1]])
          /\ Holds(CallAt(c).path, c[1]) /\ ~Holds(CallAt(c).path, d[1])

\* C6: sanitizing an already sanitized string changes nothing:
\* sanitizeInput(sanitizeInput(s)) = sanitizeInput(s) for every input s.
C6_SanitizeIdempotent == sPc = "twice" => sTwice = sOnce

IsAlnum(c) == IsLower(c) \/ IsUpper(c) \/ IsDigit(c)
\* One pass from the left: a letter or digit is lowercased, any other
\* character becomes a hyphen unless the output already ends with one.
RECURSIVE RunsAsHyphens(_, _)
RunsAsHyphens(s, out) ==
    IF s = <<>> THEN out
    ELSE IF IsAlnum(Head(s))
         THEN RunsAsHyphens(Tail(s), Append(out, LowerChar(Head(s))))
    ELSE IF out # <<>> /\ out[Len(out)] = "-" THEN RunsAsHyphens(Tail(s), out)
    ELSE RunsAsHyphens(Tail(s), Append(out, "-"))

MyGreatPostSlug == <<"m","y","-","g","r","e","a","t","-","p","o","s","t">>
MyGreatPostHyphen == Append(MyGreatPostSlug, "-")

\* C7 as stated: the slug is the lowercased input with every run of
\* non-alphanumeric characters replaced by one hyphen, "My Great Post!!" gives
\* my-great-post and "Hello World" gives hello-world.
C7_SlugExamples ==
    slugPc = "out"
      => /\ slugOut = RunsAsHyphens(slugIn, <<>>)
         /\ (slugIn = MyGreatPost => slugOut = MyGreatPostSlug)
         /\ (slugIn = HelloWorld => slugOut = HelloWorldSlug)

\* C7 (amended): the slug is the lowercased input with every run of
\* non-alphanumeric characters, a trailing or leading run included, replaced
\* by one hyphen: "My Great Post!!" gives my-great-post- (with the hyphen of
\* the final run) and "Hello World" gives hello-world.
C7_SlugRuns ==
    slugPc = "out"
      => /\ slugOut = RunsAsHyphens(slugIn, <<>>)
         /\ (slugIn = MyGreatPost => slugOut = MyGreatPostHyphen)
         /\ (slugIn = HelloWorld => slugOut = HelloWorldSlug)

\* The slug of "My Great Post!!" has been derived and ends with a hyphen.
C7_Witness ==
    slugPc = "out" /\ slugIn = MyGreatPost /\ slugOut = MyGreatPostHyphen

DocPathOf(in) == IF in.handler = "post" THEN PostPath(in.body) ELSE TESTIMONIALS_PATH
ImgPathOf(in) ==
    IF in.handler = "post" THEN PostImgPath(in.body) ELSE TestimonialImgPath(in.body)
\* a POST to save-post or save-testimonial, configuration and required fields
\* present, that carries an image decoding to more than 4 MiB
Oversized(q) ==
    /\ Started(q) /\ q.in.handler \in {"post", "testimonial"}
    /\ q.in.method = "POST" /\ Configured(q.in)
    /\ q.in.bodyKind = "object" /\ ~MissingRequired(q.in)
    /\ HasImage(q.in.body.image) /\ q.in.body.image.bytes > MaxImageBytes
ImageUntouched(q) ==
    /\ ImgPathOf(q.in) \notin q.wrote
    /\ \A i \in 1..Len(q.calls) : q.calls[i].path # ImgPathOf(q.in)

\* putFile of the document returned without throwing
DocWriteReturned(q) ==
    \E i \in CallsOf(q, "put") :
        q.calls[i].path = DocPathOf(q.in) /\ q.calls[i].result = "ok"

\* C8 as stated: a request carrying an image that decodes to more than 4 MiB
\* is answered 400, whatever its extension, and the image is not written.
C8_OversizedIs400 ==
    \A r \in DOMAIN req :
        (Oversized(req[r]) /\ Finished(req[r]))
          => (req[r].pc = "done" /\ req[r].status = 400 /\ ImageUntouched(req[r]))

\* C8 (amended): for a request carrying an image that decodes to more than
\* 4 MiB, whatever its extension, the image file is neither fetched nor
\* written and the request is never answered 200; it is answered 400 exactly
\* when the document write that precedes the image checks returned
\* successfully (the document is then stored), and it is not answered 400
\* when the document fetch or write failed.
C8_OversizedNeverStored ==
    \A r \in DOMAIN req :
        Oversized(req[r])
          => /\ ImageUntouched(req[r])
             /\ ~Answered200(req[r])
             /\ Finished(req[r])
                  => /\ (req[r].pc = "done" /\ req[r].status = 400)
                          <=> DocWriteReturned(req[r])
                     /\ DocWriteReturned(req[r])
                          => DocPathOf(req[r].in) \in req[r].wrote

\* An oversized image with an allowed extension was answered 400 after the
\* document was written.
C8_Witness ==
    \E r \in DOMAIN req :
        /\ Oversized(req[r])
        /\ ImgExt(req[r].in.body.image) \in AllowedExts
        /\ req[r].pc = "done" /\ req[r].status = 400
        /\ DocWriteReturned(req[r])
        /\ DocPathOf(req[r].in) \in req[r].wrote

\* every check of send-email between reading the body and the provider call
EmailValid(in) ==
    LET to      == sanitizeInput(in.body.to)
        subject == sanitizeInput(in.body.subject)
        text    == sanitizeInput(in.body.text)
    IN  /\ in.bodyKind = "object" /\ ~MissingRequired(in)
        /\ validateEmail(to)
        /\ Len(subject) <= MaxSubjectLen /\ Len(text) <= MaxTextLen
        /\ (Falsy(in.body.replyTo) \/ validateEmail(sanitizeInput(in.body.replyTo)))
        /\ ~Suspicious(text) /\ ~Suspicious(subject)

\* C9: a send-email request issues at most one provider call, and only for a
\* POST with the credential configured and all validation passed; without the
\* credential a POST is answered 500 and no call is made; the response is 200
\* with the provider's id exactly when the provider reported success, and
\* carries the provider's status when the provider reported a failure.
C9_ProviderCall ==
    \A r \in DOMAIN req :
        LET q == req[r]
        IN  (Started(q) /\ q.in.handler = "email")
              => /\ Len(q.calls) <= 1 /\ q.nresp <= 1
                 /\ \A i \in 1..Len(q.calls) : q.calls[i].op = "mail"
                 /\ q.calls # <<>>
                      => (q.in.method = "POST" /\ q.in.env.key /\ EmailValid(q.in))
                 /\ (q.in.method = "POST" /\ ~q.in.env.key)
                      => (q.pc = "done" /\ q.status = 500 /\ q.calls = <<>>)
                 /\ q.pc = "done"
                      => /\ (q.status = 200 /\ q.respId # 0)
                              <=> (q.calls # <<>> /\ q.calls[1].result = "ok")
                         /\ (q.calls # <<>> /\ q.calls[1].result = "ok")
                              => q.respId \in ProviderIds
                         /\ (q.calls # <<>> /\ q.calls[1].result = "fail")
                              => q.status = q.calls[1].pstatus

\* One request was answered 200 with the provider's id, or answered with the
\* status of the failure the provider reported.
C9_Witness ==
    \E r \in DOMAIN req :
        /\ req[r].in.handler = "email" /\ req[r].pc = "done"
        /\ Len(req[r].calls) = 1
        /\ \/ req[r].calls[1].result = "ok" /\ req[r].status = 200
                /\ req[r].respId \in ProviderIds
           \/ req[r].calls[1].result = "fail"
                /\ req[r].status \in ProviderFailures

\* C10: when an outbound call fails unexpectedly (no answer, or an answer
\* that cannot be read), the handler still sends exactly one response, with
\* status 500. (The write of a save-testimonial image, whose failure the spec
\* exempts, is left aside.)
C10_FailureIs500 ==
    \A r \in DOMAIN req :
        LET q == req[r]
        IN  (Finished(q)
               /\ \E i \in 1..Len(q.calls) :
                     /\ Failed(q.calls[i])
                     /\ ~(q.calls[i].op = "put" /\ SwallowedWrite(<<r, i>>)))
              => (q.pc = "done" /\ q.nresp = 1 /\ q.status = 500)

\* C11: a POST, with the configuration present, whose body is malformed JSON
\* is answered 400 by each of the three handlers and issues no outbound call.
C11_MalformedJsonIs400 ==
    \A r \in DOMAIN req :
        LET q == req[r]
        IN  (Started(q) /\ q.in.method = "POST" /\ Configured(q.in)
               /\ q.in.bodyKind = "malformed")
              => (q.pc = "done" /\ q.status = 400 /\ q.calls = <<>>)

RawChars == {"<", ">", "\"", "'"}
HasRaw(s) == \E k \in 1..Len(s) : s[k] \in RawChars
LtEntity == <<"&","l","t",";">>
QuotEntity == <<"&","q","u","o","t",";">>

\* C12: the subject and the text of every provider call contain no '<', '>',
\* '"' or "'" character.
C12_NoRawMarkup ==
    \A r \in DOMAIN req :
        \A i \in CallsOf(req[r], "mail") :
            ~HasRaw(req[r].calls[i].subject) /\ ~HasRaw(req[r].calls[i].text)

\* A submitted text with '<', '>' and both quotes reached the provider call,
\* which carries the entities instead.
C12_Witness ==
    \E r \in DOMAIN req :
        /\ req[r].in.handler = "email" /\ req[r].in.bodyKind = "object"
        /\ RawChars \subseteq Range(req[r].in.body.text)
        /\ \E i \in CallsOf(req[r], "mail") :
              /\ ContainsCI(req[r].calls[i].text, LtEntity)
              /\ ContainsCI(req[r].calls[i].text, QuotEntity)

\* putFile threw: the store rejected the write, or gave no readable answer
PutFailed(call) == call.op = "put" /\ call.result \notin {"ok", "pending"}
ListPuts(q) == {i \in CallsOf(q, "put") : q.calls[i].path = TESTIMONIALS_PATH}
ImagePuts(q) == {i \in CallsOf(q, "put") : q.calls[i].path # TESTIMONIALS_PATH}

\* C13: in save-testimonial, a failed write of the list document ends the
\* request with 500 and no image write (no further call at all) follows; an
\* image write is only attempted after the list write succeeded, and when the
\* image write fails the request is still answered 200 and its entry is in the
\* list document.
C13_ListWriteOfRecord ==
    \A r \in DOMAIN req :
        LET q == req[r]
        IN  (Started(q) /\ q.in.handler = "testimonial")
              => /\ \A i \in ListPuts(q) :
                       PutFailed(q.calls[i])
                         => /\ q.pc = "done" /\ q.status = 500 /\ q.nresp = 1
                            /\ ImagePuts(q) = {} /\ Len(q.calls) = i
                 /\ \A j \in ImagePuts(q) :
                       /\ \E i \in ListPuts(q) : i < j /\ q.calls[i].result = "ok"
                       /\ PutFailed(q.calls[j])
                            => /\ q.pc = "done" /\ q.status = 200 /\ q.nresp = 1
                               /\ Holds(TESTIMONIALS_PATH, r)

\* The list write succeeded, the image write failed, and the request was
\* answered 200 with its entry stored.
C13_Witness ==
    \E r \in DOMAIN req :
        /\ req[r].in.handler = "testimonial"
        /\ \E j \in ImagePuts(req[r]) : PutFailed(req[r].calls[j])
        /\ Answered200(req[r])
        /\ Holds(TESTIMONIALS_PATH, r)

\* The list write failed and the request was answered 500 without any image
\* write, although it carried an acceptable image.
C13_WitnessListFailed ==
    \E r \in DOMAIN req :
        /\ req[r].in.handler = "testimonial"
        /\ HasImage(req[r].in.body.image)
        /\ ImageRejection(req[r].in.body.image) = 0
        /\ \E i \in ListPuts(req[r]) : PutFailed(req[r].calls[i])
        /\ req[r].pc = "done" /\ req[r].status = 500

(***************************************************************************)
(* SpecPost: save-post requests handled one after another, over dates and  *)
(* slugs that share or do not share their derived path.                    *)
(***************************************************************************)
PostReqs == 2
DateTime == IsoDate \o <<"T","0","9">>
PaddedDate2 == <<" ">> \o IsoDate
PaddedDate3 == <<" ","2","0","2","4","-","0","1","-","0","3">>
PostDates == {IsoDate, DateTime, PaddedDate2, PaddedDate3}
SeqPostInputs ==
    {Request("post", "POST", EnvOk, "object",
             [PlainPostBody EXCEPT !.date = d, !.slug = s, !.image = i]) :
        d \in PostDates, s \in {HelloWorld, HelloWorldSlug, MyGreatPost},
        i \in {NoImage, PngImage}}

InitPost ==
    /\ req = [r \in 1..PostReqs |-> IdleReq]
    /\ store \in InitStores
    /\ faults = 0
    /\ LabsOff

NextPost ==
    \E r \in DOMAIN req :
        \/ \E in \in SeqPostInputs : Quiet /\ InOrder(r) /\ StartPost(r, in)
        \/ \E o \in GetOutcomes : PostFetchedSha(r, o)
        \/ \E o \in PutOutcomes : PostWritten(r, o)
        \/ \E o \in GetOutcomes : PostFetchedImgSha(r, o)
        \/ \E o \in PutOutcomes : PostImgWritten(r, o)

SpecPost == InitPost /\ [][NextPost]_vars

PostRequests ==
    {r \in DOMAIN req : req[r].in.handler = "post" /\ req[r].calls # <<>>}
FirstTen(s) == SubSeq(s, 1, IF Len(s) < 10 THEN Len(s) ELSE 10)
\* two requests agree on the first 10 characters of what Date(r) gives and on
\* the normalized slug
SameKey(r1, r2, Date(_)) ==
    /\ FirstTen(Date(r1)) = FirstTen(Date(r2))
    /\ RunsAsHyphens(req[r1].in.body.slug, <<>>)
         = RunsAsHyphens(req[r2].in.body.slug, <<>>)
RawDate(r) == req[r].in.body.date
TrimmedDate(r) == trim(req[r].in.body.date)
\* every write follows a fetch of the same path in the same request, the post
\* comes first, and a marker is supplied exactly when the fetch found one
FetchBeforeWrite ==
    \A r \in PostRequests :
        LET q == req[r]
        IN  /\ q.calls[1].op = "get"
            /\ \A i \in CallsOf(q, "put") :
                  /\ i > 1 /\ q.calls[i - 1].op = "get"
                  /\ q.calls[i - 1].path = q.calls[i].path
                  /\ (i = 2) = (q.calls[i].path = q.calls[1].path)
                  /\ q.calls[i - 1].result \in {"found", "absent"}
                  /\ (q.calls[i - 1].result = "absent") = (q.calls[i].sha = NullSha)
\* the step that issues a write: its marker is the stored file's at the fetch
MarkerAsFetched ==
    \A r \in DOMAIN req :
        LET n == Len(req'[r].calls)
        IN  (req[r].in.handler = "post" /\ n = Len(req[r].calls) + 1
               /\ req'[r].calls[n].op = "put")
              => IF req'[r].calls[n - 1].result = "found"
                 THEN /\ Exists(req'[r].calls[n].path)
                      /\ req'[r].calls[n].sha = store[req'[r].calls[n].path].sha
                 ELSE req'[r].calls[n].sha = NullSha
\* a later applied write of a path updates the file the earlier one left
Overwrites ==
    \A c, d \in AllPuts :
        (c[1] < d[1] /\ CallAt(c).path = CallAt(d).path
           /\ Applied(CallAt(c)) /\ Applied(CallAt(d)))
          => /\ CallAt(d).sha \notin {NullSha, CallAt(c).sha}
             /\ store[CallAt(c).path].content.by >= d[1]

\* C14 as stated: the post path depends only on the first 10 characters of
\* the date and on the normalized slug; every write follows a fetch of the
\* same path in the same request and supplies the fetched marker, or none when
\* none was returned; a later submission to the same path overwrites the file.
C14_PathFromDatePrefix ==
    /\ [](/\ \A r1, r2 \in PostRequests :
                SameKey(r1, r2, RawDate)
                  => req[r1].calls[1].path = req[r2].calls[1].path
          /\ FetchBeforeWrite
          /\ Overwrites)
    /\ [][MarkerAsFetched]_vars

\* C14 (amended): as stated, with the first 10 characters taken of the date
\* after its surrounding whitespace is trimmed.
C14_PathFromTrimmedDate ==
    /\ [](/\ \A r1, r2 \in PostRequests :
                SameKey(r1, r2, TrimmedDate)
                  => req[r1].calls[1].path = req[r2].calls[1].path
          /\ FetchBeforeWrite
          /\ Overwrites)
    /\ [][MarkerAsFetched]_vars

\* Two submissions whose dates differ after the 10th character and whose
\* slugs normalize alike were both answered 200: the second one fetched the
\* marker the first one left, supplied it, and the file is the second one's.
C14_Witness ==
    \E c, d \in AllPuts :
        /\ c[1] < d[1]
        /\ req[c[1]].in.handler = "post" /\ req[d[1]].in.handler = "post"
        /\ RawDate(c[1]) # RawDate(d[1])
        /\ req[c[1]].in.body.slug # req[d[1]].in.body.slug
        /\ CallAt(c).path = PostPath(req[c[1]].in.body)
        /\ CallAt(c).path = CallAt(d).path
        /\ Answered200(req[c[1]]) /\ Answered200(req[d[1]])
        /\ CallAt(d).sha # NullSha
        /\ store[CallAt(d).path].content.by = d[1]

Persistence(q) == Started(q) /\ q.in.handler \in {"post", "testimonial"}
\* an image the handlers do not accept: its type, its data or its size
BadImage(image) ==
    /\ HasImage(image)
    /\ \/ ImgExt(image) \notin AllowedExts
       \/ image.data # "base64"
       \/ image.bytes > 4 * 1024 * 1024

\* C15 as stated: a save-post or save-testimonial request answered 400 has
\* issued no create-or-update call and the store is as it was.
C15_RejectedWritesNothing ==
    \A r \in DOMAIN req :
        (Persistence(req[r]) /\ req[r].pc = "done" /\ req[r].status = 400)
          => (CallsOf(req[r], "put") = {} /\ req[r].wrote = {})

\* C15 (amended): a save-post or save-testimonial request answered 400 for
\* malformed JSON or a missing field has issued no outbound call; one
\* answered 400 for its image (extension not allowed, data that cannot be
\* decoded, or more than 4 MiB) has by then fetched and written the document,
\* and nothing else: the image file is neither fetched nor written. Every
\* request with such an image whose document write returned is answered 400.
C15_RejectedImageKeepsDocument ==
    \A r \in DOMAIN req :
        LET q == req[r]
        IN  Persistence(q)
              => /\ (q.pc = "done" /\ q.status = 400)
                      => IF q.in.bodyKind # "object" \/ MissingRequired(q.in)
                         THEN q.calls = <<>> /\ q.wrote = {}
                         ELSE /\ BadImage(q.in.body.image)
                              /\ Len(q.calls) = 2 /\ DocWriteReturned(q)
                              /\ q.wrote = {DocPathOf(q.in)}
                              /\ ImageUntouched(q)
                 /\ (q.in.bodyKind = "object" /\ ~MissingRequired(q.in)
                       /\ BadImage(q.in.body.image) /\ DocWriteReturned(q))
                      => (q.pc = "done" /\ q.status = 400 /\ ImageUntouched(q))

\* A request was answered 400 for an image of a type that is not allowed,
\* after its document was written.
C15_Witness ==
    \E r \in DOMAIN req :
        /\ Persistence(req[r]) /\ req[r].pc = "done" /\ req[r].status = 400
        /\ ImgExt(req[r].in.body.image) \notin AllowedExts
        /\ req[r].in.body.image.bytes <= MaxImageBytes
        /\ DocPathOf(req[r].in) \in req[r].wrote
        /\ Exists(DocPathOf(req[r].in))

\* the image path the document written by request r refers to
RefOf(r) ==
    IF req[r].in.handler = "post"
    THEN PostDoc(r, req[r].in.body).image
    ELSE NewEntry(r, req[r].in.body).image
\* request r has written a document that refers to an image of its own
WroteReference(r) ==
    /\ Persistence(req[r]) /\ Finished(req[r])
    /\ DocPathOf(req[r].in) \in req[r].wrote
    /\ RefOf(r) \notin {NoRef, DefaultImgPath}
ImageCalls(q) == {i \in 1..Len(q.calls) : q.calls[i].path # DocPathOf(q.in)}

\* C16 as stated: when a finished request has written a post header or a
\* testimonial entry that refers to a non-default image path, the request has
\* written the image at that path.
C16_ReferencedImageWritten ==
    \A r \in DOMAIN req :
        WroteReference(r)
          => (RefOf(r) = ImgPathOf(req[r].in) /\ RefOf(r) \in req[r].wrote)

\* C16 (amended): when a save-post request is answered 200 and its header
\* refers to an image, the request has written the image at that path. A
\* request leaves a written document whose image was not written only when
\* the image was rejected with 400, when the document write or an image call
\* failed (500, or no response), or, in save-testimonial, when the image write
\* failed and the request was answered 200 all the same.
C16_ReferenceWrittenOn200 ==
    \A r \in DOMAIN req :
        LET q == req[r]
        IN  WroteReference(r)
              => /\ RefOf(r) = ImgPathOf(q.in)
                 /\ (q.in.handler = "post" /\ Answered200(q))
                      => (RefOf(r) \in q.wrote /\ Exists(RefOf(r)))
                 /\ RefOf(r) \notin q.wrote
                      => \/ q.pc = "done" /\ q.status = 400
                              /\ BadImage(q.in.body.image) /\ ImageCalls(q) = {}
                         \/ q.pc = "done" /\ q.status = 500 /\ ~DocWriteReturned(q)
                              /\ ImageCalls(q) = {}
                         \/ /\ \E i \in ImageCalls(q) :
                                  q.calls[i].result \in {"throw", "rejected", "neterr"}
                            /\ IF q.in.handler = "post"
                               THEN q.pc = "done" /\ q.status = 500
                               ELSE \/ q.pc = "crashed"
                                    \/ Answered200(q)

\* A save-post request was answered 200 with the image its header refers to
\* written.
C16_Witness ==
    \E r \in DOMAIN req :
        /\ WroteReference(r) /\ req[r].in.handler = "post"
        /\ Answered200(req[r])
        /\ RefOf(r) \in req[r].wrote
        /\ store[DocPathOf(req[r].in)].content.image = RefOf(r)

=============================================================================
